---- MODULE Spec2Model ----
(***************************************************************************)
(* A model of the Nakama relay's EventHub (relay/nakama/events.go):        *)
(* createEventHub's dial loop, the sync.Map registry of subscriber         *)
(* channels, Subscribe / Unsubscribe / Shutdown called from caller          *)
(* goroutines, and the Dispatch goroutine (read loop, broadcast Range,      *)
(* shutdown drain, connection close).                                       *)
(*                                                                         *)
(* Every access to shared state (sync.Map Load/Store/Delete/Range step,     *)
(* atomic.Bool Load/Store, channel send/receive/close) is one atomic step.  *)
(* An unrecovered panic ends the Go process: after it no step is taken.     *)
(* Subscribe and Shutdown are single steps of any caller goroutine; the     *)
(* goroutines of Tasks are those that can be part-way through Unsubscribe.  *)
(*                                                                         *)
(* The second part models the persona systems of package ecs:              *)
(* buildPersonaTagMapping, RegisterPersonaSystem and                        *)
(* AuthorizePersonaAddressSystem over a world of SignerComponent entities;  *)
(* one system runs at a time and handles its queue one transaction a step.  *)
(***************************************************************************)
EXTENDS Integers, Sequences, FiniteSets, TLC

\* ---------------------------------------------------------------- bounds
MaxChan == 2           \* channels Subscribe may allocate in one run
MaxFrames == 2         \* text frames the upstream delivers in one run
MaxShutdownCalls == 2  \* calls of Shutdown() by callers in one run
MaxDials == 2          \* dial attempts of createEventHub in one run
MaxEntities == 2       \* entities the world's store can hold

Sessions == {"A", "B"}
Tasks == {1}             \* the caller goroutines that run Unsubscribe
DispatchTask == 0
Threads == Tasks \cup {DispatchTask}
ChanIds == 1..MaxChan
NoChan == 0

VARIABLES
    hub,            \* createEventHub: "dialing", "live" (hub returned), "failed"
    dials,          \* calls of websocket.DefaultDialer.Dial
    sleeps,         \* calls of time.Sleep
    createErr,      \* the error createEventHub returned (<<>> is nil)
    nextAddr,       \* next free heap address (pointer identity of error values)
    lastDial,       \* outcome of the latest Dial: "none", "ok", "dns", "refused"
    channels,       \* eh.channels: session -> channel (NoChan: no entry)
    didShutdown,    \* eh.didShutdown
    nextChan,       \* the channel the next make(chan *Event) returns
    chanClosed,     \* channel -> has close() been performed on it
    recvLog,        \* channel -> the Events its receiver got, in order
    dpc,            \* Dispatch's position
    message,        \* Dispatch: payload of the frame being broadcast
    errInner,       \* Dispatch: the err declared by := inside the loop (line 78)
    errOuter,       \* Dispatch: the err declared at line 76
    retErr,         \* Dispatch's return value
    sendTo,         \* Dispatch: the channel of the send in progress
    rangeVisited,   \* keys the Range in progress has passed to its callback
    rangeMust,      \* keys present since the Range in progress began
    framesRead,     \* text frames read so far
    upc,            \* thread -> position inside Unsubscribe
    ukey,           \* thread -> Unsubscribe's session argument
    uch,            \* thread -> the channel Unsubscribe loaded
    panicked,       \* the unrecovered panic, if any
    connCloseCalls, \* calls of eh.inputConnection.Close()
    closeAttempts,  \* channel -> executions of close(eventChannel) on it
    shutdownCalls,  \* calls of Shutdown() by callers
    drainRuns,      \* times Dispatch entered its shutdown Range
    owed,           \* channels registered when the latest ReadMessage returned
    trigger,        \* what made Dispatch call Shutdown(): "none", "read", "nontext", "notchannel"
    signers,        \* the world's entities: entity id -> its SignerComponent
    sys,            \* the system that is running: "idle", "register", "authorize"
    personaTagToAddress, \* the running system's map from persona tag to entity
    lastResult,     \* how the latest transaction was answered
    requested       \* <<signature persona tag, address>> of every authorize transaction handled

dialVars == <<hub, dials, sleeps, createErr, nextAddr, lastDial>>
regVars == <<channels, nextChan, chanClosed, closeAttempts>>
recvVars == <<recvLog>>
dispVars == <<dpc, message, errInner, errOuter, retErr, sendTo, framesRead,
              connCloseCalls, drainRuns, owed, trigger>>
rangeVars == <<rangeVisited, rangeMust>>
unsubVars == <<upc, ukey, uch>>
hubVars == <<dialVars, regVars, recvVars, dispVars, rangeVars, unsubVars,
             didShutdown, panicked, shutdownCalls>>
personaVars == <<signers, sys, personaTagToAddress, lastResult, requested>>
vars == <<hubVars, personaVars>>

\* -------------------------------------------------------------- personas
\* Persona tags and addresses are strings the transactions carry; neither
\* system validates a tag, so the empty tag is one of them. "" is also the
\* tag and the signer address of the zero SignerComponent{}.
PersonaTags == {"", "p"}
Addresses == {"a1", "a2"}
NoEntity == 0
ZeroSigner == [PersonaTag |-> "", SignerAddress |-> "", AuthorizedAddresses |-> <<>>]
NoData == [SignerAddress |-> "", EntityID |-> NoEntity]
CreatePersonaTransaction == [PersonaTag : PersonaTags, SignerAddress : Addresses]
\* An authorize transaction: its value (PersonaTag, Address) and the persona
\* tag of its signature.
AuthorizePersonaAddress ==
    [PersonaTag : PersonaTags, Address : Addresses, SigPersonaTag : PersonaTags]

\* ---------------------------------------------------------------- errors
\* A Go error value is a chain of pointers, outermost first; nil is <<>>.
Nil == <<>>
Ptr(t, a) == [type |-> t, addr |-> a]

\* What Dial returns for each outcome, allocated at address a.
DialResult(o, a) ==
    CASE o = "ok" -> Nil
      [] o = "dns" -> <<Ptr("OpError", a), Ptr("DNSError", a + 1)>>
      [] OTHER -> <<Ptr("OpError", a), Ptr("Errno", a + 1)>>

IsDNSFailure(err) == \E i \in DOMAIN err : err[i].type = "DNSError"

\* errors.Is: some error of the chain equals the target. *net.OpError and
\* *net.DNSError have no Is method, so equality is pointer equality.
ErrorsIsAlways(err, target) == err # Nil
ErrorsIs(err, target) == \E i \in DOMAIN err : err[i] = target

\* errors.Join: the non-nil errors, nil when there is none. An error of
\* Dispatch is the set of the leaf errors it wraps; {} is nil.
Join(e1, e2) == e1 \cup e2

Keys(m) == {s \in Sessions : m[s] # NoChan}
IsEventChannel(v) == v \in ChanIds
NoPanic == [msg |-> "none", thread |-> -1]
Running == hub = "live" /\ panicked = NoPanic

Init ==
    /\ hub = "dialing" /\ dials = 0 /\ sleeps = 0 /\ createErr = Nil /\ nextAddr = 1
    /\ lastDial = "none"
    /\ channels = [s \in Sessions |-> NoChan]
    /\ didShutdown = FALSE
    /\ nextChan = 1
    /\ chanClosed = [c \in ChanIds |-> FALSE]
    /\ recvLog = [c \in ChanIds |-> <<>>]
    /\ dpc = "notstarted" /\ message = 0 /\ errInner = {} /\ errOuter = {}
    /\ retErr = {} /\ sendTo = NoChan /\ framesRead = 0
    /\ rangeVisited = {} /\ rangeMust = {}
    /\ upc = [t \in Threads |-> "none"]
    /\ ukey = [t \in Threads |-> "A"]
    /\ uch = [t \in Threads |-> NoChan]
    /\ panicked = NoPanic
    /\ connCloseCalls = 0
    /\ closeAttempts = [c \in ChanIds |-> 0]
    /\ shutdownCalls = 0
    /\ drainRuns = 0
    /\ owed = {}
    /\ trigger = "none"
    /\ signers = <<>>
    /\ sys = "idle"
    /\ personaTagToAddress = [t \in PersonaTags |-> NoData]
    /\ lastResult = "none"
    /\ requested = {}

\* ------------------------------------------------------- createEventHub
\* One dial attempt and the loop body that handles its result (lines 28-47).
createEventHub(o) ==
    /\ hub = "dialing"
    /\ dials < MaxDials
    /\ dials' = dials + 1
    /\ nextAddr' = nextAddr + 3
    /\ lastDial' = o
    /\ LET err == DialResult(o, nextAddr)
           target == Ptr("DNSError", nextAddr + 2)
       IN  IF err = Nil
           THEN /\ hub' = "live"
                /\ channels' = [s \in Sessions |-> NoChan]
                /\ didShutdown' = FALSE
                /\ UNCHANGED <<sleeps, createErr>>
           ELSE IF ErrorsIs(err, target)
           THEN /\ sleeps' = sleeps + 1
                /\ UNCHANGED <<hub, createErr, channels, didShutdown>>
           ELSE /\ hub' = "failed"
                /\ createErr' = err
                /\ UNCHANGED <<sleeps, channels, didShutdown>>
    /\ UNCHANGED <<nextChan, chanClosed, closeAttempts, recvVars, dispVars,
                   rangeVars, unsubVars, panicked, shutdownCalls>>
    /\ UNCHANGED personaVars

\* ------------------------------------------------------------ Subscribe
Subscribe(s) ==
    /\ Running
    /\ nextChan <= MaxChan
    /\ channels' = [channels EXCEPT ![s] = nextChan]
    /\ nextChan' = nextChan + 1
    /\ UNCHANGED <<dialVars, chanClosed, closeAttempts, recvVars, dispVars,
                   rangeVars, unsubVars, didShutdown, panicked, shutdownCalls>>
    /\ UNCHANGED personaVars

\* ---------------------------------------------------------- Unsubscribe
\* Unsubscribe runs in a caller goroutine (th \in Tasks) or inside Dispatch's
\* shutdown Range (th = DispatchTask). Its three accesses to shared state are
\* three steps: channels.Load, close(eventChannel), channels.Delete.

\* Variant: Unsubscribe without the ok check of lines 58-60.
UnsubscribeLoadNoCheck(th, s) ==
    /\ Running
    /\ \/ th \in Tasks /\ upc[th] = "none"
       \/ th = DispatchTask /\ upc[th] = "load" /\ s = ukey[th]
    /\ IF ~IsEventChannel(channels[s])
       THEN /\ panicked' = [msg |-> "not a event channel", thread |-> th]
            /\ UNCHANGED unsubVars
       ELSE /\ upc' = [upc EXCEPT ![th] = "close"]
            /\ ukey' = [ukey EXCEPT ![th] = s]
            /\ uch' = [uch EXCEPT ![th] = channels[s]]
            /\ UNCHANGED panicked
    /\ UNCHANGED <<dialVars, regVars, recvVars, dispVars, rangeVars,
                   didShutdown, shutdownCalls>>
    /\ UNCHANGED personaVars

\* Lines 57-64: Load the entry; panic when it is absent or not a channel.
UnsubscribeLoad(th, s) ==
    /\ Running
    /\ \/ th \in Tasks /\ upc[th] = "none"
       \/ th = DispatchTask /\ upc[th] = "load" /\ s = ukey[th]
    /\ IF channels[s] = NoChan
       THEN /\ panicked' = [msg |-> "session not found", thread |-> th]
            /\ UNCHANGED unsubVars
       ELSE IF ~IsEventChannel(channels[s])
       THEN /\ panicked' = [msg |-> "not a event channel", thread |-> th]
            /\ UNCHANGED unsubVars
       ELSE /\ upc' = [upc EXCEPT ![th] = "close"]
            /\ ukey' = [ukey EXCEPT ![th] = s]
            /\ uch' = [uch EXCEPT ![th] = channels[s]]
            /\ UNCHANGED panicked
    /\ UNCHANGED <<dialVars, regVars, recvVars, dispVars, rangeVars,
                   didShutdown, shutdownCalls>>
    /\ UNCHANGED personaVars

\* Variant: Unsubscribe without line 65.
UnsubscribeNoClose(th) ==
    /\ Running
    /\ upc[th] = "close"
    /\ upc' = [upc EXCEPT ![th] = "delete"]
    /\ UNCHANGED <<dialVars, regVars, recvVars, dispVars, rangeVars, ukey, uch,
                   didShutdown, panicked, shutdownCalls>>
    /\ UNCHANGED personaVars

\* Line 65: close(eventChannel); closing a closed channel panics.
UnsubscribeClose(th) ==
    /\ Running
    /\ upc[th] = "close"
    /\ closeAttempts' = [closeAttempts EXCEPT ![uch[th]] = @ + 1]
    /\ IF chanClosed[uch[th]]
       THEN /\ panicked' = [msg |-> "close of closed channel", thread |-> th]
            /\ UNCHANGED <<chanClosed, upc>>
       ELSE /\ chanClosed' = [chanClosed EXCEPT ![uch[th]] = TRUE]
            /\ upc' = [upc EXCEPT ![th] = "delete"]
            /\ UNCHANGED panicked
    /\ UNCHANGED <<dialVars, channels, nextChan, recvVars, dispVars, rangeVars,
                   ukey, uch, didShutdown, shutdownCalls>>
    /\ UNCHANGED personaVars

\* Line 66: channels.Delete(session) removes whatever the key maps to now.
UnsubscribeDelete(th) ==
    /\ Running
    /\ upc[th] = "delete"
    /\ channels' = [channels EXCEPT ![ukey[th]] = NoChan]
    /\ rangeMust' = rangeMust \ {ukey[th]}
    /\ upc' = [upc EXCEPT ![th] = "none"]
    /\ ukey' = [ukey EXCEPT ![th] = "A"]
    /\ uch' = [uch EXCEPT ![th] = NoChan]
    /\ UNCHANGED <<dialVars, nextChan, chanClosed, closeAttempts, recvVars,
                   dispVars, rangeVisited, didShutdown, panicked, shutdownCalls>>
    /\ UNCHANGED personaVars

\* ------------------------------------------------------------- Shutdown
\* Variant: Shutdown that also closes every registered channel.
ShutdownAlsoClosesChannels ==
    /\ Running
    /\ shutdownCalls < MaxShutdownCalls
    /\ shutdownCalls' = shutdownCalls + 1
    /\ didShutdown' = TRUE
    /\ chanClosed' = [c \in ChanIds |->
                        chanClosed[c] \/ \E s \in Sessions : channels[s] = c]
    /\ channels' = [s \in Sessions |-> NoChan]
    /\ UNCHANGED <<dialVars, nextChan, closeAttempts, recvVars, dispVars,
                   rangeVars, unsubVars, panicked>>
    /\ UNCHANGED personaVars

\* Variant: Shutdown that takes Dispatch out of a blocked send.
ShutdownInterruptsSend ==
    /\ Running
    /\ shutdownCalls < MaxShutdownCalls
    /\ shutdownCalls' = shutdownCalls + 1
    /\ didShutdown' = TRUE
    /\ dpc' = IF dpc = "send" THEN "loop" ELSE dpc
    /\ sendTo' = NoChan
    /\ rangeVisited' = IF dpc = "send" THEN {} ELSE rangeVisited
    /\ rangeMust' = IF dpc = "send" THEN {} ELSE rangeMust
    /\ UNCHANGED <<dialVars, regVars, recvVars, unsubVars, panicked, message,
                   errInner, errOuter, retErr, framesRead, connCloseCalls,
                   drainRuns, owed, trigger>>
    /\ UNCHANGED personaVars

\* Variant: Shutdown that flips the latch instead of setting it.
ShutdownToggles ==
    /\ Running
    /\ shutdownCalls < MaxShutdownCalls
    /\ shutdownCalls' = shutdownCalls + 1
    /\ didShutdown' = ~didShutdown
    /\ UNCHANGED <<dialVars, regVars, recvVars, dispVars, rangeVars, unsubVars,
                   panicked>>
    /\ UNCHANGED personaVars

\* Variant: Shutdown that also closes the upstream connection.
ShutdownAlsoClosesConn ==
    /\ Running
    /\ shutdownCalls < MaxShutdownCalls
    /\ shutdownCalls' = shutdownCalls + 1
    /\ didShutdown' = TRUE
    /\ connCloseCalls' = connCloseCalls + 1
    /\ UNCHANGED <<dialVars, regVars, recvVars, rangeVars, unsubVars, panicked,
                   dpc, message, errInner, errOuter, retErr, sendTo, framesRead,
                   drainRuns, owed, trigger>>
    /\ UNCHANGED personaVars

\* A caller's Shutdown(): one atomic store (line 70).
Shutdown ==
    /\ Running
    /\ shutdownCalls < MaxShutdownCalls
    /\ shutdownCalls' = shutdownCalls + 1
    /\ didShutdown' = TRUE
    /\ UNCHANGED <<dialVars, regVars, recvVars, dispVars, rangeVars, unsubVars,
                   panicked>>
    /\ UNCHANGED personaVars

\* ------------------------------------------------------------- Dispatch
\* The caller starts Dispatch in a goroutine; line 76 declares err = nil.
DispatchStart ==
    /\ Running
    /\ dpc = "notstarted"
    /\ dpc' = "loop"
    /\ errOuter' = {}
    /\ UNCHANGED <<dialVars, regVars, recvVars, rangeVars, unsubVars, didShutdown,
                   panicked, shutdownCalls, message, errInner, retErr, sendTo,
                   framesRead, connCloseCalls, drainRuns, owed, trigger>>
    /\ UNCHANGED personaVars

\* Variant: a loop exit that goes to line 107 without the shutdown Range.
LoopCheckSkipsDrain ==
    /\ Running
    /\ dpc = "loop"
    /\ dpc' = IF didShutdown THEN "close" ELSE "read"
    /\ errInner' = {}
    /\ UNCHANGED <<dialVars, regVars, recvVars, unsubVars, didShutdown, panicked,
                   shutdownCalls, message, errOuter, retErr, sendTo, rangeVars,
                   framesRead, connCloseCalls, drainRuns, owed, trigger>>
    /\ UNCHANGED personaVars

\* Line 77: the loop condition loads the latch; when it is set the loop is
\* left and the shutdown Range of line 102 begins.
LoopCheck ==
    /\ Running
    /\ dpc = "loop"
    /\ IF didShutdown
       THEN /\ dpc' = "drain"
            /\ drainRuns' = drainRuns + 1
            /\ rangeVisited' = {}
            /\ rangeMust' = Keys(channels)
       ELSE /\ dpc' = "read"
            /\ UNCHANGED <<drainRuns, rangeVars>>
    /\ errInner' = {}
    /\ UNCHANGED <<dialVars, regVars, recvVars, unsubVars, didShutdown, panicked,
                   shutdownCalls, message, errOuter, retErr, sendTo,
                   framesRead, connCloseCalls, owed, trigger>>
    /\ UNCHANGED personaVars

\* Variant: lines 79-86 without their calls of Shutdown().
ReadMessageNoShutdown(o) ==
    /\ Running
    /\ dpc = "read"
    /\ IF o = "error"
       THEN /\ errInner' = {"read"}
            /\ trigger' = "read"
            /\ dpc' = "loop"
            /\ owed' = {channels[s] : s \in Keys(channels)}
            /\ UNCHANGED <<message, framesRead, rangeVars, didShutdown>>
       ELSE IF o = "binary"
       THEN /\ errInner' = {}
            /\ trigger' = "nontext"
            /\ dpc' = "loop"
            /\ owed' = {channels[s] : s \in Keys(channels)}
            /\ UNCHANGED <<message, framesRead, rangeVars, didShutdown>>
       ELSE /\ framesRead < MaxFrames
            /\ errInner' = {}
            /\ framesRead' = framesRead + 1
            /\ message' = framesRead + 1
            /\ rangeVisited' = {}
            /\ rangeMust' = Keys(channels)
            /\ owed' = {channels[s] : s \in Keys(channels)}
            /\ dpc' = "range"
            /\ UNCHANGED <<didShutdown, trigger>>
    /\ UNCHANGED <<dialVars, regVars, recvVars, unsubVars, panicked, shutdownCalls,
                   errOuter, retErr, sendTo, connCloseCalls, drainRuns>>
    /\ UNCHANGED personaVars

\* Lines 78-87: ReadMessage returns; := declares a new err for this
\* iteration. A read error or a non-text frame calls Shutdown() and continues;
\* a text frame starts the broadcast Range.
ReadMessage(o) ==
    /\ Running
    /\ dpc = "read"
    /\ IF o = "error"
       THEN /\ errInner' = {"read"}
            /\ didShutdown' = TRUE
            /\ trigger' = "read"
            /\ dpc' = "loop"
            /\ owed' = {channels[s] : s \in Keys(channels)}
            /\ UNCHANGED <<message, framesRead, rangeVars>>
       ELSE IF o = "binary"
       THEN /\ errInner' = {}
            /\ didShutdown' = TRUE
            /\ trigger' = "nontext"
            /\ dpc' = "loop"
            /\ owed' = {channels[s] : s \in Keys(channels)}
            /\ UNCHANGED <<message, framesRead, rangeVars>>
       ELSE /\ framesRead < MaxFrames
            /\ errInner' = {}
            /\ framesRead' = framesRead + 1
            /\ message' = framesRead + 1
            /\ rangeVisited' = {}
            /\ rangeMust' = Keys(channels)
            /\ owed' = {channels[s] : s \in Keys(channels)}
            /\ dpc' = "range"
            /\ UNCHANGED <<didShutdown, trigger>>
    /\ UNCHANGED <<dialVars, regVars, recvVars, unsubVars, panicked, shutdownCalls,
                   errOuter, retErr, sendTo, connCloseCalls, drainRuns>>
    /\ UNCHANGED personaVars

\* Lines 87-94: Range passes one more entry to the callback. sync.Map's Range
\* visits no key twice and passes the value the key maps to when it is
\* visited; a non-channel value sets the inner err, calls Shutdown() and stops
\* the Range, a channel value starts the blocking send.
RangeVisit(k) ==
    /\ Running
    /\ dpc = "range"
    /\ k \in Keys(channels) \ rangeVisited
    /\ rangeVisited' = rangeVisited \cup {k}
    /\ IF IsEventChannel(channels[k])
       THEN /\ dpc' = "send"
            /\ sendTo' = channels[k]
            /\ UNCHANGED <<errInner, didShutdown, trigger>>
       ELSE /\ dpc' = "rangeStopped"
            /\ errInner' = {"notchannel"}
            /\ didShutdown' = TRUE
            /\ trigger' = "notchannel"
            /\ UNCHANGED sendTo
    /\ UNCHANGED <<dialVars, regVars, recvVars, unsubVars, panicked, shutdownCalls,
                   rangeMust, message, errOuter, retErr, framesRead,
                   connCloseCalls, drainRuns, owed>>
    /\ UNCHANGED personaVars

\* Variant: a Range that may return after any entry.
RangeEndAfterFirstEntry ==
    /\ Running
    /\ \/ dpc = "range" /\ (rangeVisited # {} \/ rangeMust = {})
       \/ dpc = "rangeStopped"
    /\ dpc' = "loop"
    /\ didShutdown' = (didShutdown \/ errInner # {})
    /\ rangeVisited' = {}
    /\ rangeMust' = {}
    /\ UNCHANGED <<dialVars, regVars, recvVars, unsubVars, panicked,
                   shutdownCalls, message, errInner, errOuter, retErr, sendTo,
                   framesRead, connCloseCalls, drainRuns, owed, trigger>>
    /\ UNCHANGED personaVars

\* Lines 96-100: the Range returns once every key present since it began has
\* been visited (keys stored meanwhile may be skipped); the inner err is tested.
RangeEnd ==
    /\ Running
    /\ \/ dpc = "range" /\ rangeMust \subseteq rangeVisited
       \/ dpc = "rangeStopped"
    /\ dpc' = "loop"
    /\ didShutdown' = (didShutdown \/ errInner # {})
    /\ rangeVisited' = {}
    /\ rangeMust' = {}
    /\ UNCHANGED <<dialVars, regVars, recvVars, unsubVars, panicked,
                   shutdownCalls, message, errInner, errOuter, retErr, sendTo,
                   framesRead, connCloseCalls, drainRuns, owed, trigger>>
    /\ UNCHANGED personaVars

\* Line 94: a send on a closed channel, or a blocked send whose channel is
\* closed, panics.
SendOnClosed ==
    /\ Running
    /\ dpc = "send"
    /\ chanClosed[sendTo]
    /\ panicked' = [msg |-> "send on closed channel", thread |-> DispatchTask]
    /\ UNCHANGED <<dialVars, regVars, recvVars, dispVars, rangeVars, unsubVars,
                   didShutdown, shutdownCalls>>
    /\ UNCHANGED personaVars

\* What a receive on channel c yields now: 0 is the closed indication
\* (nil, ok = false), a positive number the Event offered by a send in
\* progress, -1 that the receiver blocks.
ReceiveResult(c) ==
    IF chanClosed[c] THEN 0
    ELSE IF dpc = "send" /\ sendTo = c THEN message
    ELSE -1

\* Line 94 with the subscriber's receive: the channel is unbuffered, so the
\* send completes exactly when the receiver of that channel takes the Event.
ReceiveEvent(c) ==
    /\ Running
    /\ ReceiveResult(c) > 0
    /\ recvLog' = [recvLog EXCEPT ![c] = Append(@, message)]
    /\ dpc' = "range"
    /\ sendTo' = NoChan
    /\ UNCHANGED <<dialVars, regVars, rangeVars, unsubVars, didShutdown,
                   panicked, shutdownCalls, message, errInner, errOuter, retErr,
                   framesRead, connCloseCalls, drainRuns, owed, trigger>>
    /\ UNCHANGED personaVars

\* A receive on a closed channel returns at once with the closed indication;
\* it changes nothing in the hub.
ReceiveClosed(c) ==
    /\ Running
    /\ c < nextChan
    /\ ReceiveResult(c) = 0
    /\ UNCHANGED vars

\* Lines 102-104: the shutdown Range passes one more key to its callback,
\* which logs it and calls Unsubscribe(key).
DrainVisit(k) ==
    /\ Running
    /\ dpc = "drain"
    /\ upc[DispatchTask] = "none"
    /\ k \in Keys(channels) \ rangeVisited
    /\ rangeVisited' = rangeVisited \cup {k}
    /\ upc' = [upc EXCEPT ![DispatchTask] = "load"]
    /\ ukey' = [ukey EXCEPT ![DispatchTask] = k]
    /\ UNCHANGED <<dialVars, regVars, recvVars, dispVars, rangeMust, uch,
                   didShutdown, panicked, shutdownCalls>>
    /\ UNCHANGED personaVars

\* Line 106: the shutdown Range returns.
DrainEnd ==
    /\ Running
    /\ dpc = "drain"
    /\ upc[DispatchTask] = "none"
    /\ rangeMust \subseteq rangeVisited
    /\ dpc' = "close"
    /\ rangeVisited' = {}
    /\ rangeMust' = {}
    /\ UNCHANGED <<dialVars, regVars, recvVars, unsubVars, didShutdown,
                   panicked, shutdownCalls, message, errInner, errOuter, retErr,
                   sendTo, framesRead, connCloseCalls, drainRuns, owed, trigger>>
    /\ UNCHANGED personaVars

\* Lines 107-108: close the connection, join its error with the outer err,
\* return.
ConnClose(o) ==
    /\ Running
    /\ dpc = "close"
    /\ connCloseCalls' = connCloseCalls + 1
    /\ LET closeErr == IF o = "error" THEN {"close"} ELSE {}
       IN  /\ errOuter' = Join(closeErr, errOuter)
           /\ retErr' = Join(closeErr, errOuter)
    /\ dpc' = "done"
    /\ UNCHANGED <<dialVars, regVars, recvVars, rangeVars, unsubVars, didShutdown,
                   panicked, shutdownCalls, message, errInner, sendTo, framesRead,
                   drainRuns, owed, trigger>>
    /\ UNCHANGED personaVars

DispatchNext ==
    \/ DispatchStart
    \/ LoopCheck
    \/ \E o \in {"text", "binary", "error"} : ReadMessage(o)
    \/ \E k \in Sessions : RangeVisit(k)
    \/ RangeEnd
    \/ SendOnClosed
    \/ \E k \in Sessions : DrainVisit(k)
    \/ \E s \in Sessions : UnsubscribeLoad(DispatchTask, s)
    \/ UnsubscribeClose(DispatchTask)
    \/ UnsubscribeDelete(DispatchTask)
    \/ DrainEnd
    \/ \E o \in {"ok", "error"} : ConnClose(o)

CallerNext ==
    \/ \E s \in Sessions : Subscribe(s)
    \/ \E t \in Tasks, s \in Sessions : UnsubscribeLoad(t, s)
    \/ \E t \in Tasks : UnsubscribeClose(t)
    \/ \E t \in Tasks : UnsubscribeDelete(t)
    \/ Shutdown

ReceiverNext ==
    \/ \E c \in ChanIds : ReceiveEvent(c)
    \/ \E c \in ChanIds : ReceiveClosed(c)

Next ==
    \/ \E o \in {"ok", "dns", "refused"} : createEventHub(o)
    \/ DispatchNext
    \/ CallerNext
    \/ ReceiverNext

Spec == Init /\ [][Next]_vars

\* The Go scheduler runs every runnable goroutine: Dispatch takes its next
\* step whenever it has one, and a subscriber that is receiving takes an
\* Event offered to it.
FairSpec ==
    /\ Spec
    /\ WF_vars(DispatchNext)
    /\ \A c \in ChanIds : WF_vars(ReceiveEvent(c))

\* ------------------------------------------------- buildPersonaTagMapping
Elems(seq) == {seq[i] : i \in DOMAIN seq}
HasTag(w, t) == {id \in DOMAIN w : w[id].PersonaTag = t}

\* Lines 105-116: Each visits every entity and stores its tag's entry, so a
\* tag carried by several entities ends with the entry of the one visited
\* last; the order of the visit is the store's.
DataOf(w, t) ==
    IF HasTag(w, t) = {}
    THEN {NoData}
    ELSE {[SignerAddress |-> w[id].SignerAddress, EntityID |-> id] : id \in HasTag(w, t)}
buildPersonaTagMapping(w) ==
    {m \in [PersonaTags -> UNION {DataOf(w, t) : t \in PersonaTags}] :
        \A t \in PersonaTags : m[t] \in DataOf(w, t)}

\* -------------------------------------------------- RegisterPersonaSystem
\* Lines 126-133: no create-persona transaction, or a GetComponent error
\* while the mapping is built, returns at once; otherwise the loop starts.
RegisterPersonaSystemBegin(o) ==
    /\ sys = "idle"
    /\ IF o = "empty"
       THEN UNCHANGED <<sys, personaTagToAddress, lastResult>>
       ELSE IF o = "getErr"
       THEN /\ signers # <<>>
            /\ lastResult' = "none"
            /\ UNCHANGED <<sys, personaTagToAddress>>
       ELSE /\ sys' = "register"
            /\ personaTagToAddress' \in buildPersonaTagMapping(signers)
            /\ lastResult' = "none"
    /\ UNCHANGED <<hubVars, signers, requested>>

\* Variant: the loop body without the lookup of lines 136-139.
RegisterPersonaSystemTxNoLookup(tx, o) ==
    /\ sys = "register"
    /\ IF o = "createErr"
       THEN /\ lastResult' = "error"
            /\ UNCHANGED <<signers, personaTagToAddress>>
       ELSE /\ Len(signers) < MaxEntities
            /\ IF o = "setErr"
               THEN /\ signers' = Append(signers, ZeroSigner)
                    /\ lastResult' = "error"
                    /\ UNCHANGED personaTagToAddress
               ELSE /\ signers' = Append(signers,
                            [PersonaTag |-> tx.PersonaTag,
                             SignerAddress |-> tx.SignerAddress,
                             AuthorizedAddresses |-> <<>>])
                    /\ personaTagToAddress' =
                            [personaTagToAddress EXCEPT ![tx.PersonaTag] =
                                [SignerAddress |-> tx.SignerAddress,
                                 EntityID |-> Len(signers) + 1]]
                    /\ lastResult' = "success"
    /\ UNCHANGED <<hubVars, sys, requested>>

\* Lines 134-159, one iteration: a tag found in the mapping is skipped;
\* otherwise Create makes an entity with the zero component and SetComponent
\* writes tag and signer address; either can fail, and a SetComponent failure
\* leaves the entity with the zero component.
RegisterPersonaSystemTx(tx, o) ==
    /\ sys = "register"
    /\ IF personaTagToAddress[tx.PersonaTag] # NoData
       THEN /\ lastResult' = "skipped"
            /\ UNCHANGED <<signers, personaTagToAddress>>
       ELSE IF o = "createErr"
       THEN /\ lastResult' = "error"
            /\ UNCHANGED <<signers, personaTagToAddress>>
       ELSE /\ Len(signers) < MaxEntities
            /\ IF o = "setErr"
               THEN /\ signers' = Append(signers, ZeroSigner)
                    /\ lastResult' = "error"
                    /\ UNCHANGED personaTagToAddress
               ELSE /\ signers' = Append(signers,
                            [PersonaTag |-> tx.PersonaTag,
                             SignerAddress |-> tx.SignerAddress,
                             AuthorizedAddresses |-> <<>>])
                    /\ personaTagToAddress' =
                            [personaTagToAddress EXCEPT ![tx.PersonaTag] =
                                [SignerAddress |-> tx.SignerAddress,
                                 EntityID |-> Len(signers) + 1]]
                    /\ lastResult' = "success"
    /\ UNCHANGED <<hubVars, sys, requested>>

\* Line 161: the queue is exhausted; the mapping is a local and dies here.
RegisterPersonaSystemReturn ==
    /\ sys = "register"
    /\ sys' = "idle"
    /\ personaTagToAddress' = [t \in PersonaTags |-> NoData]
    /\ UNCHANGED <<hubVars, signers, lastResult, requested>>

\* ------------------------------------------ AuthorizePersonaAddressSystem
\* Lines 46-49.
AuthorizePersonaAddressSystemBegin(o) ==
    /\ sys = "idle"
    /\ lastResult' = "none"
    /\ IF o = "getErr"
       THEN /\ signers # <<>>
            /\ UNCHANGED <<sys, personaTagToAddress>>
       ELSE /\ sys' = "authorize"
            /\ personaTagToAddress' \in buildPersonaTagMapping(signers)
    /\ UNCHANGED <<hubVars, signers, requested>>

\* Variant: the callback without the signature check of lines 53-55.
AuthorizePersonaAddressSystemTxNoSigCheck(tx, o) ==
    /\ sys = "authorize"
    /\ requested' = requested \cup {<<tx.SigPersonaTag, tx.Address>>}
    /\ LET data == personaTagToAddress[tx.PersonaTag]
       IN  IF data = NoData
           THEN /\ lastResult' = "noPersona"
                /\ UNCHANGED signers
           ELSE IF o = "updateErr"
           THEN /\ lastResult' = "error"
                /\ UNCHANGED signers
           ELSE /\ signers' =
                    [signers EXCEPT ![data.EntityID].AuthorizedAddresses =
                        IF tx.Address \in Elems(@) THEN @ ELSE Append(@, tx.Address)]
                /\ lastResult' = "success"
    /\ UNCHANGED <<hubVars, sys, personaTagToAddress>>

\* Lines 50-74, one transaction: the signature's persona tag must equal the
\* requested tag and the tag must be in the mapping; UpdateComponent then
\* appends the address unless the list already holds it, or fails and
\* changes nothing.
AuthorizePersonaAddressSystemTx(tx, o) ==
    /\ sys = "authorize"
    /\ requested' = requested \cup {<<tx.SigPersonaTag, tx.Address>>}
    /\ LET data == personaTagToAddress[tx.PersonaTag]
       IN  IF tx.SigPersonaTag # tx.PersonaTag
           THEN /\ lastResult' = "sigMismatch"
                /\ UNCHANGED signers
           ELSE IF data = NoData
           THEN /\ lastResult' = "noPersona"
                /\ UNCHANGED signers
           ELSE IF o = "updateErr"
           THEN /\ lastResult' = "error"
                /\ UNCHANGED signers
           ELSE /\ signers' =
                    [signers EXCEPT ![data.EntityID].AuthorizedAddresses =
                        IF tx.Address \in Elems(@) THEN @ ELSE Append(@, tx.Address)]
                /\ lastResult' = "success"
    /\ UNCHANGED <<hubVars, sys, personaTagToAddress>>

\* Line 75.
AuthorizePersonaAddressSystemReturn ==
    /\ sys = "authorize"
    /\ sys' = "idle"
    /\ personaTagToAddress' = [t \in PersonaTags |-> NoData]
    /\ UNCHANGED <<hubVars, signers, lastResult, requested>>

PersonaNext ==
    \/ \E o \in {"empty", "getErr", "ok"} : RegisterPersonaSystemBegin(o)
    \/ \E tx \in CreatePersonaTransaction, o \in {"ok", "createErr", "setErr"} :
            RegisterPersonaSystemTx(tx, o)
    \/ RegisterPersonaSystemReturn
    \/ \E o \in {"getErr", "ok"} : AuthorizePersonaAddressSystemBegin(o)
    \/ \E tx \in AuthorizePersonaAddress, o \in {"ok", "updateErr"} :
            AuthorizePersonaAddressSystemTx(tx, o)
    \/ AuthorizePersonaAddressSystemReturn

\* The world's tick runs its systems one after another over that tick's
\* queue.
PersonaSpec == Init /\ [][PersonaNext]_vars

\* ---------------------------------------------------------------- claims
Count(seq, x) == Cardinality({i \in DOMAIN seq : seq[i] = x})
StrictlyIncreasing(seq) == \A i, j \in DOMAIN seq : i < j => seq[i] < seq[j]
Registered(c) == \E s \in Sessions : channels[s] = c
Returned == dpc = "done"

\* C1: Dispatch is never sending, or blocked in a send, on a channel that
\* Unsubscribe has closed, and the broadcast never panics on such a send.
C1_NeverSendsOnClosedChannel ==
    /\ ~(dpc = "send" /\ chanClosed[sendTo])
    /\ panicked.msg # "send on closed channel"

\* C2: once the latch is set (by Shutdown() or by a shutdown-triggering
\* condition), fair scheduling leads to a state where the registry is empty,
\* the connection has been closed exactly once and Dispatch has returned. A
\* run that a caller ended by unsubscribing an unknown session is left out.
TornDown == Keys(channels) = {} /\ connCloseCalls = 1 /\ Returned
CallerMisuse == panicked.msg = "session not found" /\ panicked.thread \in Tasks
C2_ShutdownLeadsToTeardown == <>didShutdown => <>(TornDown \/ CallerMisuse)

\* C3: when Dispatch stops working on a frame (its Range returns, or Dispatch
\* itself dies), every channel that was registered when the frame was read and
\* is still registered, open and not being unsubscribed has received that
\* frame exactly once; every channel's Events are in upstream arrival order.
BroadcastStops ==
    /\ dpc \in {"range", "send", "rangeStopped"}
    /\ \/ dpc' = "loop"
       \/ panicked' # NoPanic /\ panicked'.thread = DispatchTask
C3_EachRegisteredSubscriberGetsEachFrameOnce ==
    [][/\ \A c \in ChanIds : StrictlyIncreasing(recvLog'[c])
       /\ BroadcastStops =>
            \A c \in owed :
                (/\ \E s \in Sessions : channels'[s] = c
                 /\ ~chanClosed'[c]
                 /\ \A t \in Tasks : uch'[t] # c)
                => Count(recvLog'[c], message) = 1]_vars

\* C4: when Dispatch has returned after an upstream read that failed while
\* two sessions were subscribed, the connection was closed once and the
\* returned error is non-nil and wraps the read failure.
C4_ReadFailureIsReturned ==
    (Returned /\ trigger = "read" /\ Cardinality(owed) = 2) =>
        /\ connCloseCalls = 1
        /\ retErr # {}
        /\ "read" \in retErr

\* C5: close() is executed at most once on every subscriber channel.
C5_ChannelClosedAtMostOnce == \A c \in ChanIds : closeAttempts[c] <= 1

\* C6: however often Shutdown() is called, the shutdown drain is entered at
\* most once and the connection's Close is called at most once; when Dispatch
\* has returned each has happened exactly once.
C6_TeardownRunsOnce ==
    /\ drainRuns <= 1
    /\ connCloseCalls <= 1
    /\ Returned => (drainRuns = 1 /\ connCloseCalls = 1)
C6_Witness == shutdownCalls >= 2 /\ Returned /\ connCloseCalls = 1

\* C7: createEventHub never returns a name-resolution failure to its caller
\* (it sleeps and dials again instead).
C7_DNSFailureNeverReturned == hub = "failed" => ~IsDNSFailure(createErr)

\* C8: after a dial that failed with an error other than a name-resolution
\* failure, createEventHub has returned exactly that error and no hub, and
\* that dial was the last: no sleep and no dial follows it.
C8_OtherDialErrorReturnedAtOnce ==
    lastDial = "refused" =>
        /\ hub = "failed"
        /\ createErr = DialResult("refused", nextAddr - 3)
        /\ ~IsDNSFailure(createErr)
        /\ dials = sleeps + 1
C8_Witness == lastDial = "refused" /\ hub = "failed" /\ createErr # Nil

\* C9: when Dispatch has returned after leaving its loop on a non-text frame
\* or a registry entry that is not a channel, it returned a non-nil error.
C9_ProtocolViolationIsReturned ==
    (Returned /\ trigger \in {"nontext", "notchannel"}) => retErr # {}

\* C10: the step in which Unsubscribe(s) returns leaves the channel it loaded
\* closed and s without a registry entry; a closed channel stays closed, a
\* receive on it yields the closed indication, and its receiver gets no
\* further Event.
C10_UnsubscribeClosesForGood ==
    [][/\ \A th \in Threads :
            (upc[th] = "delete" /\ upc'[th] = "none") =>
                /\ chanClosed'[uch[th]]
                /\ channels'[ukey[th]] = NoChan
       /\ \A c \in ChanIds :
            chanClosed[c] =>
                /\ chanClosed'[c]
                /\ ReceiveResult(c) = 0
                /\ recvLog'[c] = recvLog[c]]_vars
C10_Witness ==
    /\ dpc = "read"
    /\ upc[1] = "none"
    /\ panicked = NoPanic
    /\ \E c \in ChanIds :
        /\ chanClosed[c]
        /\ ~Registered(c)
        /\ recvLog[c] # <<>>

\* C11: a caller's Unsubscribe(s) for a key without a registry entry always
\* ends in the 'session not found' panic, in the step that loads the key,
\* and that step closes no channel and leaves the registry as it was; an
\* Unsubscribe gets past its Load only for a registered key.
C11_UnknownSessionPanics ==
    [][/\ \A t \in Tasks, s \in Sessions :
            (UnsubscribeLoad(t, s) /\ channels[s] = NoChan) =>
                /\ panicked' = [msg |-> "session not found", thread |-> t]
                /\ UNCHANGED <<regVars, recvVars, unsubVars>>
       /\ \A th \in Threads :
            (upc[th] # "close" /\ upc'[th] = "close") =>
                /\ channels[ukey'[th]] # NoChan
                /\ uch'[th] = channels[ukey'[th]]]_vars
C11_Witness ==
    /\ panicked.msg = "session not found"
    /\ panicked.thread \in Tasks
    /\ nextChan = 1
    /\ \A c \in ChanIds : ~chanClosed[c]

\* C12: deliveries follow the upstream order across all subscribers: no
\* channel receives a frame after any channel has received a later one; and
\* when the next text frame is read, every channel that was registered when
\* the previous one was read (and is still registered, open and not being
\* unsubscribed) has already received the previous one.
Subscribed(c) ==
    /\ Registered(c)
    /\ ~chanClosed[c]
    /\ \A t \in Tasks : uch[t] # c
C12_BroadcastCompletesBeforeNextRead ==
    [][/\ \A c \in ChanIds :
            recvLog'[c] # recvLog[c] =>
                \A c2 \in ChanIds : \A i \in DOMAIN recvLog[c2] :
                    recvLog[c2][i] <= recvLog'[c][Len(recvLog'[c])]
       /\ framesRead' = framesRead + 1 =>
            \A c \in owed : Subscribed(c) => Count(recvLog[c], framesRead) = 1]_vars
C12_Witness ==
    /\ nextChan > 2
    /\ recvLog[1] = <<1, 2>>
    /\ recvLog[2] = <<1>>
    /\ dpc = "range"

\* C13: the latch is false when createEventHub returns the hub, and once it
\* is true no step makes it false again.
C13_LatchIsOneWay ==
    [][/\ (hub # "live" /\ hub' = "live") => ~didShutdown'
       /\ didShutdown => didShutdown']_vars
C13_Witness ==
    /\ didShutdown
    /\ shutdownCalls >= 1
    /\ trigger # "none"
    /\ Returned

\* C14: a caller's Shutdown() changes nothing but the latch: the registry,
\* every channel (open or closed, and what its receiver got) and the
\* connection are as before; a channel is closed only by a step of
\* Unsubscribe, the connection only by Dispatch's step after the drain.
C14_ShutdownOnlySetsLatch ==
    [][/\ shutdownCalls' # shutdownCalls =>
            /\ didShutdown'
            /\ UNCHANGED <<channels, nextChan, chanClosed, closeAttempts,
                           recvLog, connCloseCalls, dpc, sendTo, panicked>>
       /\ chanClosed' # chanClosed => \E th \in Threads : upc[th] = "close"
       /\ connCloseCalls' # connCloseCalls => dpc = "close"]_vars
C14_Witness ==
    /\ shutdownCalls >= 1
    /\ connCloseCalls = 0
    /\ \E c \in ChanIds : Registered(c) /\ ~chanClosed[c] /\ recvLog[c] # <<>>

\* C16: the connection is closed only by Dispatch, in the step that follows
\* its shutdown Range, and that Range returns only when every entry present
\* since it began has been removed; once the connection is closed Dispatch
\* reads and sends nothing more. Before Dispatch runs nothing of the hub is
\* torn down, and with the latch already set Dispatch goes from its loop
\* condition to the drain without a read.
C16_ReleaseOnlyAtEndOfDispatch ==
    [][/\ connCloseCalls' # connCloseCalls =>
            dpc = "close" /\ dpc' = "done" /\ drainRuns = 1
       /\ (dpc = "drain" /\ dpc' = "close") => rangeMust = {}
       /\ connCloseCalls > 0 =>
            /\ dpc = "done" /\ dpc' = "done"
            /\ framesRead' = framesRead /\ recvLog' = recvLog
            /\ trigger' = trigger /\ sendTo' = NoChan
       /\ dpc = "notstarted" => connCloseCalls = 0 /\ drainRuns = 0
       /\ (didShutdown /\ dpc \in {"notstarted", "loop"}) =>
            dpc' \in {"notstarted", "loop", "drain"}]_vars
C16_Witness ==
    /\ Returned
    /\ shutdownCalls >= 1
    /\ framesRead = 0
    /\ trigger = "none"
    /\ \E c \in ChanIds : chanClosed[c] /\ ~Registered(c)

\* C17: once ReadMessage has returned an error or a non-text frame, Dispatch
\* never reaches another ReadMessage, no subscriber receives anything more
\* (the offending frame included), and no further frame is taken.
C17_ShuttingDownIsTerminal ==
    [][/\ trigger \in {"read", "nontext"} =>
            /\ dpc \notin {"read", "range", "send", "rangeStopped"}
            /\ dpc' \notin {"read", "range", "send", "rangeStopped"}
            /\ didShutdown'
            /\ recvLog' = recvLog
            /\ framesRead' = framesRead
            /\ trigger' = trigger]_vars
C17_Witness ==
    /\ trigger = "nontext"
    /\ Returned
    /\ framesRead = 1
    /\ \E c \in ChanIds : chanClosed[c] /\ recvLog[c] = <<1>>

\* C18: a Subscribe on a registered key stores the new channel under that key
\* and closes nothing; from then on the previous channel, which no key maps
\* to any more, is never closed by any Unsubscribe or by the drain, and no
\* send on it is started.
Orphaned(c) == c < nextChan /\ ~Registered(c) /\ ~chanClosed[c]
C18_OverwriteOrphansPreviousChannel ==
    [][/\ \A s \in Sessions :
            (channels[s] # NoChan /\ channels'[s] \notin {NoChan, channels[s]}) =>
                /\ channels'[s] = nextChan
                /\ chanClosed' = chanClosed
                /\ \A s2 \in Sessions \ {s} : channels'[s2] = channels[s2]
       /\ \A c \in ChanIds :
            Orphaned(c) =>
                /\ ~chanClosed'[c]
                /\ sendTo' = c => sendTo = c
                /\ sendTo # c => recvLog'[c] = recvLog[c]]_vars

\* C19: while Dispatch is blocked in a send, every step either leaves it
\* blocked in that same send (no frame read, nothing delivered to anyone,
\* the Range no further), or completes that very send, or is a panic; a
\* Shutdown() call leaves Dispatch where it is; and Dispatch leaves a
\* broadcast only when its Range has returned, and goes to the drain only
\* from the loop condition with the latch set.
C19_ShutdownDoesNotInterruptSend ==
    [][/\ dpc = "send" =>
            \/ /\ dpc' = "send"
               /\ sendTo' = sendTo
               /\ message' = message
               /\ framesRead' = framesRead
               /\ recvLog' = recvLog
               /\ rangeVisited' = rangeVisited
            \/ /\ dpc' = "range"
               /\ recvLog' = [recvLog EXCEPT ![sendTo] = Append(@, message)]
               /\ framesRead' = framesRead
            \/ panicked' # NoPanic
       /\ shutdownCalls' # shutdownCalls =>
            /\ dpc' = dpc
            /\ sendTo' = sendTo
            /\ rangeVisited' = rangeVisited
       /\ (dpc \in {"range", "send", "rangeStopped"} /\ dpc' = "loop") =>
            \/ dpc = "range" /\ rangeMust \subseteq rangeVisited
            \/ dpc = "rangeStopped"
       /\ (dpc # "drain" /\ dpc' = "drain") => dpc = "loop" /\ didShutdown]_vars
C19_Witness ==
    /\ dpc = "send"
    /\ didShutdown
    /\ shutdownCalls >= 1
    /\ ~chanClosed[sendTo]
    /\ \E s \in Keys(channels) : s \notin rangeVisited

\* C15: after every step of the persona systems each persona tag is carried
\* by at most one entity that has a signer address; the tag and the signer
\* address of an existing entity never change; and a create-persona
\* transaction whose tag already has a signer (from an earlier run or from
\* earlier in the same queue) creates no entity and changes no component.
Holders(w, t) == {id \in HasTag(w, t) : w[id].SignerAddress # ""}
C15_EachTagHasAtMostOneSigner ==
    [][/\ \A t \in PersonaTags : Cardinality(Holders(signers', t)) <= 1
       /\ \A id \in DOMAIN signers :
            /\ id \in DOMAIN signers'
            /\ signers'[id].PersonaTag = signers[id].PersonaTag
            /\ signers'[id].SignerAddress = signers[id].SignerAddress
       /\ \A tx \in CreatePersonaTransaction, o \in {"ok", "createErr", "setErr"} :
            (RegisterPersonaSystemTx(tx, o) /\ Holders(signers, tx.PersonaTag) # {}) =>
                /\ signers' = signers
                /\ lastResult' = "skipped"]_vars
C15_Witness ==
    /\ sys = "register"
    /\ lastResult = "skipped"
    /\ Len(signers) = 1
    /\ signers[1].PersonaTag = "p"
    /\ signers[1].SignerAddress = "a1"
    /\ signers[1].AuthorizedAddresses = <<"a2">>

\* C20: after every step of the persona systems, each address in an
\* entity's AuthorizedAddresses was requested by a handled authorize
\* transaction whose signature persona tag is that entity's tag, and no list
\* holds an address twice; an authorize transaction whose signature tag
\* differs from the requested tag, or whose tag no entity carries, changes no
\* component, and one for an address already in the list leaves the list as
\* it is.
C20_OnlyRequestedAddressesAuthorized ==
    [][/\ \A id \in DOMAIN signers' :
            LET s == signers'[id]
            IN  /\ \A a \in Elems(s.AuthorizedAddresses) :
                        <<s.PersonaTag, a>> \in requested'
                /\ Cardinality(Elems(s.AuthorizedAddresses)) = Len(s.AuthorizedAddresses)
       /\ \A tx \in AuthorizePersonaAddress, o \in {"ok", "updateErr"} :
            AuthorizePersonaAddressSystemTx(tx, o) =>
                /\ (tx.SigPersonaTag # tx.PersonaTag \/ HasTag(signers, tx.PersonaTag) = {}) =>
                        signers' = signers
                /\ \A id \in HasTag(signers, tx.PersonaTag) :
                        tx.Address \in Elems(signers[id].AuthorizedAddresses) =>
                            signers'[id] = signers[id]
                /\ \A id \in DOMAIN signers :
                        signers'[id].PersonaTag # tx.PersonaTag => signers'[id] = signers[id]]_vars
C20_Witness ==
    /\ sys = "authorize"
    /\ lastResult = "sigMismatch"
    /\ <<"", "a2">> \in requested
    /\ \E id \in DOMAIN signers :
            /\ signers[id].PersonaTag = "p"
            /\ signers[id].AuthorizedAddresses = <<"a1">>
    /\ \E id \in DOMAIN signers :
            /\ signers[id].PersonaTag = ""
            /\ signers[id].AuthorizedAddresses = <<>>
====
